---------------------------- MODULE Spec2Model ----------------------------
(***************************************************************************)
(* Model of fortnite_to_influx.py: the change-detection-and-upsert         *)
(* pipeline that copies Fortnite seasons and player statistics into        *)
(* InfluxDB.                                                               *)
(*                                                                         *)
(*   SpecStats  FortniteAPI.get_stats, one step per loop iteration         *)
(*   SpecAccount  FortniteAPI.get_account_id, one call                     *)
(*   SpecFlatten  flatten_json, one call                                   *)
(*   SpecChanged  has_data_changed, one call                               *)
(*   Spec       main / FortniteSync.run over several runs against a        *)
(*              persistent store                                           *)
(***************************************************************************)
EXTENDS Integers, Sequences, FiniteSets, TLC

VARIABLES
  (* FortniteAPI.get_stats *)
  gsPc,         \* "loop" while the for loop runs, "returned" after a return
  gsMax,        \* the max_retries argument
  gsAttempt,    \* the loop variable attempt of the next iteration
  gsResponses,  \* the outcome of every HTTP attempt made so far, in order
  gsSlept,      \* the sleeps performed after each attempt, in order
  gsResult      \* the returned value (None until a payload is returned)

VARIABLES
  (* one process execution of main() *)
  world,        \* what the remote API and the player file hold
  run,          \* number of the current execution
  env,          \* environment variables and player file of this execution
  pc,           \* position of the execution
  nSeasons,     \* len(seasons) in sync_seasons
  sIdx,         \* index of the season the loop of sync_seasons is at
  season,       \* the loop variable season
  pIdx,         \* idx of sync_players
  account_id,   \* account_id of _sync_player
  stats,        \* stats of _sync_player
  raised,       \* an exception is propagating to main
  interrupted,  \* the propagating exception is KeyboardInterrupt
  exitCode,     \* -1 while running
  connOpen,     \* the InfluxDBClient of self.db is open
  opens,        \* InfluxDBClient(...) constructions in this execution
  closes,       \* self.db.close() calls in this execution
  apiCalled,    \* some Fortnite API request was issued in this execution
  didWrite,     \* some write_api.write call was made in this execution
  slept,        \* seconds sync_players has slept between players
  ev,           \* what the latest season or player iteration did
  idLog,        \* how the latest _sync_player call resolved the account id
  (* the time-series store, which outlives the executions *)
  seasonStore,  \* per season tag: last value of every field (Flux last())
  seasonLast,   \* per season tag: field set of the latest point written
  playerStore,  \* per player tag: last value of every field
  playerLast,   \* per player tag: payload of the latest point written
  playerIdTag   \* per player tag: account_id tag of the latest point written

VARIABLE
  (* a single call of one of the module-level functions *)
  call          \* the function, its arguments, and its result once returned

statsVars == <<gsPc, gsMax, gsAttempt, gsResponses, gsSlept, gsResult>>

runVars ==
  <<world, run, env, pc, nSeasons, sIdx, season, pIdx, account_id, stats, raised,
    interrupted, exitCode, connOpen, opens, closes, apiCalled, didWrite, slept, ev,
    idLog>>

storeVars == <<seasonStore, seasonLast, playerStore, playerLast, playerIdTag>>

syncVars == <<runVars, storeVars>>

callVars == <<call>>

vars == <<statsVars, syncVars, callVars>>

-----------------------------------------------------------------------------
(* Bounds of the model *)

MaxRetriesBound == 3    \* max_retries ranges over 1..MaxRetriesBound
MaxRuns == 2            \* executions of main() against the same store
NumSeasons == 2         \* longest season list the API answers with
NumPlayers == 2         \* names in the player file
MaxHeaderSecs == 5      \* largest Retry-After numeral the model parses
NumKeys == 2            \* field names of the records given to has_data_changed
MaxItems == 1           \* longest list inside the objects given to flatten_json

(* Program constants *)

DefaultMaxRetries == 3  \* get_stats(..., max_retries: int = 3)
DefaultRetryAfter == 60 \* response.headers.get('Retry-After', 60)
InterPlayerDelay == 1   \* time.sleep(1) in sync_players

-----------------------------------------------------------------------------
(* JSON values as Python sees them after response.json().  Every value is  *)
(* a record of one shape: t is the Python type, n the numeric value,       *)
(* s the string value, kids the (key, value) pairs of a dict in insertion  *)
(* order or the items of a list (keys unused).                             *)

PyNone == [t |-> "null", n |-> 0, s |-> "", kids |-> <<>>]
JBool(b) == [t |-> "bool", n |-> IF b THEN 1 ELSE 0, s |-> "", kids |-> <<>>]
JInt(i) == [t |-> "int", n |-> i, s |-> "", kids |-> <<>>]
JFloat(i) == [t |-> "float", n |-> i, s |-> "", kids |-> <<>>]
JStr(str) == [t |-> "str", n |-> 0, s |-> str, kids |-> <<>>]
JObj(kv) == [t |-> "dict", n |-> 0, s |-> "", kids |-> kv]
JList(items) ==
  [t |-> "list", n |-> 0, s |-> "",
   kids |-> [i \in 1..Len(items) |-> <<"", items[i]>>]]

IsNumeric(v) == v.t \in {"bool", "int", "float"}

(* Python's == on scalars: bool, int and float compare by numeric value    *)
(* (True == 1 == 1.0), strings by content, None only equals None.          *)
(* Lists compare item by item, dicts key by key.                           *)
RECURSIVE PyEq(_, _)
PyEq(a, b) ==
  \/ IsNumeric(a) /\ IsNumeric(b) /\ a.n = b.n
  \/ a.t = "str" /\ b.t = "str" /\ a.s = b.s
  \/ a.t = "null" /\ b.t = "null"
  \/ /\ a.t = "list" /\ b.t = "list" /\ Len(a.kids) = Len(b.kids)
     /\ \A i \in 1..Len(a.kids) : PyEq(a.kids[i][2], b.kids[i][2])
  \/ /\ a.t = "dict" /\ b.t = "dict" /\ Len(a.kids) = Len(b.kids)
     /\ \A i \in 1..Len(a.kids) : \E j \in 1..Len(b.kids) :
          a.kids[i][1] = b.kids[j][1] /\ PyEq(a.kids[i][2], b.kids[j][2])

(* Python truthiness of a value: None, False, 0, "", {} and [] are falsy.  *)
Truthy(v) ==
  CASE v.t = "null" -> FALSE
    [] IsNumeric(v) -> v.n # 0
    [] v.t = "str" -> v.s # ""
    [] OTHER -> v.kids # <<>>

(* str.upper() on the strings the model draws from. *)
Upper(str) ==
  CASE str \in {"unknown", "Unknown", "UNKNOWN"} -> "UNKNOWN"
    [] str = "error" -> "ERROR"
    [] OTHER -> str

-----------------------------------------------------------------------------
(* A Python dict of scalars is a function from its keys to values; an      *)
(* ordered list of (key, value) assignments becomes one by letting the     *)
(* later assignment win, as dict.update and result[k] = v do.              *)

EmptyDict == [k \in {} |-> PyNone]

RECURSIVE ToDict(_)
ToDict(pairs) ==
  IF pairs = <<>> THEN EmptyDict
  ELSE LET rest == ToDict(SubSeq(pairs, 1, Len(pairs) - 1))
           last == pairs[Len(pairs)]
       IN (last[1] :> last[2]) @@ rest

(* flatten_json, as the ordered list of assignments it makes to result. *)
RECURSIVE flatten_pairs(_, _)
RECURSIVE flatten_items(_, _, _)
flatten_items(items, new_key, i) ==
  IF i > Len(items) THEN <<>>
  ELSE LET item == items[i][2]
           idx == ToString(i - 1)
       IN (IF item.t = "dict"
           THEN flatten_pairs(item.kids, new_key \o "_" \o idx \o "_")
           ELSE << <<new_key \o "_" \o idx, item>> >>)
          \o flatten_items(items, new_key, i + 1)

flatten_pairs(kv, prefix) ==
  IF kv = <<>> THEN <<>>
  ELSE LET key == Head(kv)[1]
           value == Head(kv)[2]
           new_key == IF prefix # "" THEN prefix \o key ELSE key
       IN (CASE value.t = "dict" -> flatten_pairs(value.kids, new_key \o "_")
             [] value.t = "list" -> flatten_items(value.kids, new_key, 1)
             [] OTHER -> << <<new_key, value>> >>)
          \o flatten_pairs(Tail(kv), prefix)

flatten_json(data) == ToDict(flatten_pairs(data.kids, ""))

(* dict item assignment on a JSON object: replaces the value in place when *)
(* the key exists, appends the key otherwise.                              *)
SetItem(obj, key, value) ==
  LET kv == obj.kids
      hit == {i \in 1..Len(kv) : kv[i][1] = key}
  IN IF hit = {} THEN JObj(Append(kv, <<key, value>>))
     ELSE JObj([i \in 1..Len(kv) |-> IF i \in hit THEN <<key, value>> ELSE kv[i]])

-----------------------------------------------------------------------------
(* has_data_changed(new_data, old_data); old_data = NoDict stands for None *)

NoDict == "None" :> PyNone

Get(d, key) == IF key \in DOMAIN d THEN d[key] ELSE PyNone

has_data_changed_common_keys(new_data, old_data) ==
  IF old_data = NoDict THEN TRUE
  ELSE \E key \in DOMAIN new_data \cap DOMAIN old_data :
         ~PyEq(new_data[key], old_data[key])
has_data_changed(new_data, old_data) ==
  IF old_data = NoDict THEN TRUE
  ELSE \E key \in DOMAIN new_data \cup DOMAIN old_data :
         \/ (key \in DOMAIN new_data) # (key \in DOMAIN old_data)
         \/ ~PyEq(Get(new_data, key), Get(old_data, key))

(* is_api_error: .upper() exists on str only, so a non-string value *)
(* under "error" raises AttributeError before anything is returned.        *)
is_api_error_raises(flat) ==
  "error" \in DOMAIN flat /\ flat["error"].t # "str"

(* str(x) of a scalar, on the values the model draws from. *)
PyStr(v) ==
  CASE v.t = "str" -> v.s
    [] v.t = "null" -> "None"
    [] v.t = "bool" -> IF v.n = 1 THEN "True" ELSE "False"
    [] OTHER -> ToString(v.n)

is_api_error_never(flat) == FALSE
is_api_error(flat) ==
  \/ Upper(IF "error" \in DOMAIN flat THEN flat["error"].s ELSE "") = "UNKNOWN"
  \/ /\ PyEq(Get(flat, "_field"), JStr("error"))
     /\ Upper(IF "_value" \in DOMAIN flat THEN PyStr(flat["_value"]) ELSE "")
          = "UNKNOWN"

-----------------------------------------------------------------------------
(* Stats payloads the remote API may answer with. *)

StatsBody(level) ==
  JObj(<< <<"result", JBool(TRUE)>>, <<"name", JStr("x")>>,
          <<"account", JObj(<< <<"level", JInt(level)>> >>)>> >>)

PayloadA == StatsBody(50)
PayloadA2 == StatsBody(51)
PayloadNull == JObj(Append(PayloadA.kids, <<"season", PyNone>>))
PayloadWins == JObj(Append(PayloadA.kids, <<"wins", JList(<<JInt(3)>>)>>))
PayloadError == JObj(<< <<"error", JStr("unknown")>> >>)
PayloadTagged ==
  JObj(<< <<"_field", JStr("error")>>, <<"_value", JStr("Unknown")>> >>)
PayloadErrFlag ==
  JObj(<< <<"error", JBool(FALSE)>>, <<"_field", JStr("error")>>,
          <<"_value", JStr("UNKNOWN")>> >>)
PayloadEmpty == JObj(<<>>)
(* A body with its own "account_id" ahead of an "account" object holding *)
(* "id": the key path account, id joins to the flat key account_id.      *)
PayloadShadowId ==
  JObj(<< <<"account_id", JStr("x")>>,
          <<"account", JObj(<< <<"id", PyNone>>, <<"level", JInt(50)>> >>)>> >>)

Payloads ==
  {PayloadA, PayloadA2, PayloadNull, PayloadWins, PayloadError, PayloadTagged,
   PayloadErrFlag, PayloadEmpty, PayloadShadowId}

-----------------------------------------------------------------------------
(* FortniteAPI.get_stats *)

(* One HTTP exchange of requests.get: exc is "" when a response arrived,   *)
(* else the exception raised; bodyOk tells whether response.json() parses; *)
(* hdr/hdrText is the Retry-After header.                                  *)
Response(status, exc, bodyOk, body, hdr, hdrText) ==
  [status |-> status, exc |-> exc, bodyOk |-> bodyOk, body |-> body,
   hdr |-> hdr, hdrText |-> hdrText]

Responses ==
  {Response(200, "", TRUE, p, FALSE, "") : p \in Payloads}
  \cup {Response(200, "", FALSE, PyNone, FALSE, "")}
  \cup {Response(429, "", FALSE, PyNone, FALSE, ""),
        Response(429, "", FALSE, PyNone, TRUE, ToString(MaxHeaderSecs)),
        Response(429, "", FALSE, PyNone, TRUE, "soon")}
  \cup {Response(500, "", FALSE, PyNone, FALSE, "")}
  \cup {Response(0, "Timeout", FALSE, PyNone, FALSE, ""),
        Response(0, "ConnectionError", FALSE, PyNone, FALSE, "")}

(* int(text): the numerals 0..MaxHeaderSecs parse, anything else raises. *)
IntParses(text) == \E k \in 0..MaxHeaderSecs : ToString(k) = text
IntOf(text) == CHOOSE k \in 0..MaxHeaderSecs : ToString(k) = text

(* wait_time of the 429 branch; defined when int() does not raise. *)
WaitTime(r) == IF r.hdr THEN IntOf(r.hdrText) ELSE DefaultRetryAfter

(* for attempt in range(max_retries): the loop runs another iteration. *)
LoopContinuesInclusive(attempt, max_retries) == attempt <= max_retries
LoopContinues(attempt, max_retries) == attempt < max_retries

(* The attempt returns: status 200 and response.json() parsed. *)
Returns200IgnoringParse(r) == r.exc = "" /\ r.status = 200
Returns200(r) == r.exc = "" /\ r.status = 200 /\ r.bodyOk

(* Sleeps of one loop iteration that does not return, in order: the        *)
(* rate-limit wait of the 429 branch, then the backoff at the loop's end.  *)
RateLimitSleep(r) ==
  IF r.exc = "" /\ r.status = 429 /\ (r.hdr => IntParses(r.hdrText))
  THEN <<WaitTime(r)>> ELSE <<>>

BackoffSleepAfterEveryAttempt(attempt, max_retries) == <<2 ^ attempt>>
BackoffSleep(attempt, max_retries) ==
  IF attempt < max_retries - 1 THEN <<2 ^ attempt>> ELSE <<>>

(* One iteration of  for attempt in range(max_retries)  *)
GetStats_Attempt ==
  /\ gsPc = "loop"
  /\ LoopContinues(gsAttempt, gsMax)
  /\ \E r \in Responses :
       /\ gsResponses' = Append(gsResponses, r)
       /\ IF Returns200(r)
          THEN /\ gsResult' = r.body
               /\ gsPc' = "returned"
               /\ UNCHANGED <<gsAttempt, gsSlept>>
          ELSE /\ gsSlept' = Append(gsSlept,
                      RateLimitSleep(r) \o BackoffSleep(gsAttempt, gsMax))
               /\ gsAttempt' = gsAttempt + 1
               /\ UNCHANGED <<gsResult, gsPc>>
  /\ UNCHANGED <<gsMax, syncVars, callVars>>

(* The loop is exhausted: return None *)
GetStats_Exhausted ==
  /\ gsPc = "loop"
  /\ ~LoopContinues(gsAttempt, gsMax)
  /\ gsPc' = "returned"
  /\ gsResult' = PyNone
  /\ UNCHANGED <<gsMax, gsAttempt, gsResponses, gsSlept, syncVars, callVars>>

(* No get_stats call is being followed. *)
GetStats_Idle ==
  /\ gsPc = "idle"
  /\ gsMax = DefaultMaxRetries
  /\ gsAttempt = 0
  /\ gsResponses = <<>>
  /\ gsSlept = <<>>
  /\ gsResult = PyNone

NextStats == GetStats_Attempt \/ GetStats_Exhausted

-----------------------------------------------------------------------------
(* FortniteAPI.get_account_id *)

AccountId(i) == "acc" \o ToString(i)

(* key in obj  and  obj[key]  on a JSON object *)
HasKey(obj, key) == \E i \in 1..Len(obj.kids) : obj.kids[i][1] = key
Item(obj, key) ==
  obj.kids[CHOOSE i \in 1..Len(obj.kids) : obj.kids[i][1] = key][2]
(* obj.get(key) *)
GetItem(obj, key) == IF HasKey(obj, key) THEN Item(obj, key) ELSE PyNone

(* The answer of the account lookup API: as for get_stats, without the   *)
(* Retry-After header, which get_account_id does not read.               *)
LookupResponse(status, exc, bodyOk, body) ==
  Response(status, exc, bodyOk, body, FALSE, "")

(* The try block of get_account_id: the three places of the id are       *)
(* looked at in turn, and the first key that is there is returned; an    *)
(* exception (of requests.get or of response.json()) or a status other   *)
(* than 200 gives None.                                                  *)
get_account_id(r) ==
  IF r.exc # "" \/ r.status # 200 \/ ~r.bodyOk THEN PyNone
  ELSE LET data == r.body
           result == GetItem(data, "result")
           account == GetItem(data, "account")
       IN IF HasKey(data, "account_id") THEN Item(data, "account_id")
          ELSE IF Truthy(result) /\ result.t = "dict"
                  /\ HasKey(result, "account_id")
          THEN Item(result, "account_id")
          ELSE IF HasKey(data, "account") /\ account.t = "dict"
                  /\ HasKey(account, "id")
          THEN Item(account, "id")
          ELSE PyNone

(* What the lookup API may answer for the i-th player of the file: an    *)
(* error status, or the account id at root level.                        *)
PlayerLookups(i) ==
  {LookupResponse(500, "", FALSE, PyNone),
   LookupResponse(200, "", TRUE,
                  JObj(<< <<"result", JBool(TRUE)>>,
                          <<"account_id", JStr(AccountId(i))>> >>))}

-----------------------------------------------------------------------------
(* Config *)

Required ==
  {"FORTNITE_API_USER_URL", "FORTNITE_API_STATS_URL", "FORTNITE_API_TOKEN",
   "SEASONS_API_URL", "INFLUXDB_URL", "INFLUXDB_TOKEN", "INFLUXDB_ORG",
   "INFLUXDB_BUCKET", "PLAYER_FILE"}

(* An environment: the value os.getenv gives for every required name ("" *)
(* for an unset or empty variable, both falsy) and what the path named   *)
(* by PLAYER_FILE is: "readable", "absent", or "unreadable" (it exists   *)
(* but open() raises: a directory, or no read permission).               *)
AllSet == [name \in Required |-> "set"]
Environment(values, file) == [values |-> values, file |-> file]

Environments ==
  {Environment(AllSet, "readable"),
   Environment([AllSet EXCEPT !["FORTNITE_API_TOKEN"] = ""], "readable"),
   Environment([AllSet EXCEPT !["PLAYER_FILE"] = ""], "absent"),
   Environment(AllSet, "absent"),
   Environment(AllSet, "unreadable")}

validate(e) ==
  LET missing == {name \in Required : e.values[name] = ""}
  IN IF missing # {} THEN FALSE
     ELSE IF e.file = "absent" THEN FALSE
     ELSE TRUE

-----------------------------------------------------------------------------
(* InfluxDBStore.  A Flux query ending in last() yields, for the tag it    *)
(* filters on, the latest value of every field ever written under it, so   *)
(* the store is kept as that mapping per tag.                              *)

Player(i) == "player" \o ToString(i)
SeasonTag(i) == "c5s" \o ToString(i)

PlayerTags == {Player(i) : i \in 1..NumPlayers}
SeasonTags == {SeasonTag(i) : i \in 1..NumSeasons}

(* _query_to_dict on a query that did not raise: None when no field came *)
(* back, else the dict of the fields.                                    *)
query_to_dict(fields) == IF fields = EmptyDict THEN NoDict ELSE fields

(* _query_to_dict as a whole: a query that raises is caught and yields   *)
(* None.                                                                 *)
QueryToDictEmptyOnError(queryRaises, fields) ==
  IF queryRaises THEN EmptyDict ELSE query_to_dict(fields)
QueryToDict(queryRaises, fields) ==
  IF queryRaises THEN NoDict ELSE query_to_dict(fields)

(* The fields write_player_stats puts on the point: bool as int, int and *)
(* float as float, str as is; any other value (None) gets no field.      *)
FieldValue(v) ==
  CASE v.t = "bool" -> JInt(v.n)
    [] v.t \in {"int", "float"} -> JFloat(v.n)
    [] OTHER -> v

player_point(flat) ==
  [k \in {k \in DOMAIN flat : flat[k].t \in {"bool", "int", "float", "str"}}
     |-> FieldValue(flat[k])]

(* A written point replaces the last value of each field it carries. *)
StoreAfterWrite(fields, point) == point @@ fields

-----------------------------------------------------------------------------
(* Seasons as the seasons API lists them: "" stands for a key that is    *)
(* absent, null or empty (season.get(...) is falsy).                     *)

SeasonEntry(id, startDate, endDate) ==
  [season |-> id, startDate |-> startDate, endDate |-> endDate]

NoSeason == SeasonEntry("", "", "")

(* The (startDate, endDate) pairs a listed season may come with. *)
SeasonDates ==
  {<<"", "">>, <<"2023-12-03", "">>, <<"2023-12-03", "2024-03-08">>}

(* season_data as sync_seasons builds it *)
season_data(se) ==
  (IF se.startDate # "" THEN "start" :> JStr(se.startDate) ELSE EmptyDict)
  @@ (IF se.endDate # "" THEN "end" :> JStr(se.endDate) ELSE EmptyDict)

-----------------------------------------------------------------------------
(* The outside of a behaviour: the dates the seasons endpoint lists its  *)
(* seasons with (none: every get_seasons yields []), how many names the  *)
(* player file holds, and the bodies the stats endpoint serves.  Three   *)
(* families are followed: seasons alone, players alone, and both with    *)
(* one kind of season and one body.                                      *)

World(seasons, players, payloads) ==
  [seasons |-> seasons, players |-> players, payloads |-> payloads]

BothWorld == World({<<"2023-12-03", "">>}, NumPlayers, {PayloadA})

Worlds ==
  {World(SeasonDates, 0, {}),
   World({}, NumPlayers, Payloads),
   BothWorld}

(* The i-th item of the list get_seasons returns: a season without id,   *)
(* or the season with one of the dates the endpoint lists.               *)
SeasonEntries(i) ==
  {NoSeason} \cup {SeasonEntry(SeasonTag(i), d[1], d[2]) : d \in world.seasons}

-----------------------------------------------------------------------------
(* main() and FortniteSync *)

(* What an iteration did: its outcome; prior, the answer of the query    *)
(* for the stored snapshot ("" not queried, "error" the query raised,    *)
(* "none" nothing stored, "found"); extra, whether the snapshot held a   *)
(* field that the new record lacks.                                      *)
Event(kind, outcome, prior, extra) ==
  [kind |-> kind, outcome |-> outcome, prior |-> prior, extra |-> extra]
NoEvent == Event("none", "", "", FALSE)

Prior(queryRaises, stored) ==
  IF queryRaises THEN "error" ELSE IF stored = NoDict THEN "none" ELSE "found"

Extra(stored, new) ==
  stored # NoDict /\ DOMAIN stored \ DOMAIN new # {}

(* How a _sync_player call resolved the account id: the index of the     *)
(* player, whether the query of get_stored_account_id raised, what       *)
(* get_stored_account_id returned, the number of requests sent to the    *)
(* account lookup API, and the id passed to get_stats (None when         *)
(* get_stats was not called).                                            *)
IdLog(player, queryRaised, stored, lookups, used) ==
  [player |-> player, queryRaised |-> queryRaised, stored |-> stored,
   lookups |-> lookups, used |-> used]
NoIdLog == IdLog(0, FALSE, PyNone, 0, PyNone)

(* The state a fresh process starts in. *)
ProcessStart ==
  /\ pc' = "main"
  /\ nSeasons' = 0
  /\ sIdx' = 0
  /\ season' = NoSeason
  /\ pIdx' = 0
  /\ account_id' = PyNone
  /\ stats' = PyNone
  /\ raised' = FALSE
  /\ interrupted' = FALSE
  /\ exitCode' = -1
  /\ connOpen' = FALSE
  /\ opens' = 0
  /\ closes' = 0
  /\ apiCalled' = FALSE
  /\ didWrite' = FALSE
  /\ slept' = 0
  /\ ev' = NoEvent
  /\ idLog' = NoIdLog

Main_Init ==
  /\ world \in Worlds
  /\ run = 1
  /\ env \in Environments
  /\ pc = "main"
  /\ nSeasons = 0
  /\ sIdx = 0
  /\ season = NoSeason
  /\ pIdx = 0
  /\ account_id = PyNone
  /\ stats = PyNone
  /\ raised = FALSE
  /\ interrupted = FALSE
  /\ exitCode = -1
  /\ connOpen = FALSE
  /\ opens = 0
  /\ closes = 0
  /\ apiCalled = FALSE
  /\ didWrite = FALSE
  /\ slept = 0
  /\ ev = NoEvent
  /\ idLog = NoIdLog
  /\ seasonStore = [tag \in SeasonTags |-> EmptyDict]
  /\ seasonLast = [tag \in SeasonTags |-> NoDict]
  /\ playerStore = [tag \in PlayerTags |-> EmptyDict]
  /\ playerLast = [tag \in PlayerTags |-> PyNone]
  /\ playerIdTag = [tag \in PlayerTags |-> PyNone]

(* main: config = Config(); if not config.validate(): sys.exit(1) *)
Main_Validate ==
  /\ pc = "main"
  /\ IF validate(env)
     THEN pc' = "construct" /\ UNCHANGED exitCode
     ELSE pc' = "exited" /\ exitCode' = 1
  /\ UNCHANGED <<world, run, env, interrupted, idLog, nSeasons, sIdx, season, pIdx, account_id, stats,
                 raised, connOpen, opens, closes, apiCalled, didWrite, slept,
                 ev, storeVars, statsVars, callVars>>

(* main: sync = FortniteSync(config), which builds InfluxDBStore(config) *)
FortniteSync_Init ==
  /\ pc = "construct"
  /\ connOpen' = TRUE
  /\ opens' = opens + 1
  /\ pc' = "sync_seasons"
  /\ UNCHANGED <<world, run, env, interrupted, idLog, nSeasons, sIdx, season, pIdx, account_id, stats,
                 raised, exitCode, closes, apiCalled, didWrite, slept, ev,
                 storeVars, statsVars, callVars>>

(* sync_seasons: seasons = self.api.get_seasons(), [] when the request   *)
(* fails; the entries of the list are drawn as the loop reaches them.    *)
SyncSeasons_Fetch ==
  /\ pc = "sync_seasons"
  /\ apiCalled' = TRUE
  /\ \E n \in (IF world.seasons # {} THEN 0..NumSeasons ELSE {0}) :
       /\ nSeasons' = n
       /\ sIdx' = 1
       /\ season' \in (IF n >= 1 THEN SeasonEntries(1) ELSE {NoSeason})
  /\ pc' = "season_loop"
  /\ UNCHANGED <<world, run, env, interrupted, idLog, pIdx, account_id, stats, raised, exitCode,
                 connOpen, opens, closes, didWrite, slept, ev, storeVars,
                 statsVars, callVars>>

(* The loop moves on to the next season of the list. *)
NextSeason ==
  /\ sIdx' = sIdx + 1
  /\ season' \in (IF sIdx + 1 <= nSeasons THEN SeasonEntries(sIdx + 1)
                  ELSE {NoSeason})

(* One iteration of  for season in seasons  *)
SyncSeasons_Season ==
  /\ pc = "season_loop"
  /\ sIdx <= nSeasons
  /\ IF season.season = ""
     THEN (* continue *)
          /\ NextSeason
          /\ ev' = Event("season", "skipped", "", FALSE)
          /\ UNCHANGED <<pc, raised, didWrite, storeVars>>
     ELSE \E queryRaises \in BOOLEAN, writeRaises \in BOOLEAN :
            LET tag == season.season
                data == season_data(season)
                stored == QueryToDict(queryRaises, seasonStore[tag])
                prior == Prior(queryRaises, stored)
                extra == Extra(stored, data)
            IN IF ~has_data_changed(data, stored)
               THEN /\ NextSeason
                    /\ ev' = Event("season", "unchanged", prior, extra)
                    /\ UNCHANGED <<pc, raised, didWrite, storeVars>>
               ELSE IF writeRaises
               THEN (* write_season raises: the exception leaves the loop *)
                    /\ raised' = TRUE
                    /\ pc' = "finally"
                    /\ didWrite' = TRUE
                    /\ ev' = Event("season", "write_failed", prior, extra)
                    /\ UNCHANGED <<sIdx, season, storeVars>>
               ELSE /\ seasonStore' =
                         [seasonStore EXCEPT
                            ![tag] = StoreAfterWrite(seasonStore[tag], data)]
                    /\ seasonLast' = [seasonLast EXCEPT ![tag] = data]
                    /\ didWrite' = TRUE
                    /\ NextSeason
                    /\ ev' = Event("season", "written", prior, extra)
                    /\ UNCHANGED <<pc, raised, playerStore, playerLast,
                                   playerIdTag>>
  /\ UNCHANGED <<world, run, env, interrupted, idLog, nSeasons, pIdx, account_id, stats, exitCode,
                 connOpen, opens, closes, apiCalled, slept, statsVars, callVars>>

(* sync_seasons returns; sync_players opens the player file *)
SyncPlayers_Load ==
  /\ pc = "season_loop"
  /\ sIdx > nSeasons
  /\ IF env.file = "readable"
     THEN /\ pc' = "player_loop"
          /\ pIdx' = 1
          /\ UNCHANGED raised
     ELSE (* open() raises *)
          /\ pc' = "finally"
          /\ raised' = TRUE
          /\ UNCHANGED pIdx
  /\ UNCHANGED <<world, run, env, interrupted, idLog, nSeasons, sIdx, season, account_id, stats,
                 exitCode, connOpen, opens, closes, apiCalled, didWrite,
                 slept, ev, storeVars, statsVars, callVars>>

(* account_id = self.db.get_stored_account_id(player): the value of the  *)
(* field account_id among the player's last fields, None when the query  *)
(* raises or has no such field.                                          *)
get_stored_account_id(tag, queryRaises) ==
  IF queryRaises THEN PyNone ELSE Get(playerStore[tag], "account_id")

(* _sync_player returns before the stored snapshot is read: the player   *)
(* is logged as failed, sync_players sleeps and goes to the next player. *)
EarlyReturnAborts(outcome) ==
  /\ ev' = Event("player", outcome, "", FALSE)
  /\ pc' = "finally"
  /\ raised' = TRUE
  /\ UNCHANGED <<pIdx, slept, account_id, stats>>
EarlyReturn(outcome) ==
  /\ ev' = Event("player", outcome, "", FALSE)
  /\ pIdx' = pIdx + 1
  /\ slept' = slept + InterPlayerDelay
  /\ UNCHANGED <<pc, account_id, stats, raised>>

(* if account_id: ... else: account_id = self.api.get_account_id(player)  *)
(* The lookup API is asked, with one request, when the stored id is      *)
(* falsy.                                                                *)
needs_lookup_always(storedId) == TRUE
needs_lookup(storedId) == ~Truthy(storedId)

(* _sync_player up to  stats = self.api.get_stats(account_id) ; when it  *)
(* returns early, sync_players sleeps and moves to the next player.      *)
SyncPlayer_Fetch ==
  /\ pc = "player_loop"
  /\ pIdx <= world.players
  /\ \E queryRaises \in BOOLEAN,
        looked \in {get_account_id(r) : r \in PlayerLookups(pIdx)},
        fetched \in {PyNone} \cup world.payloads :
       LET storedId == get_stored_account_id(Player(pIdx), queryRaises)
           lookup == needs_lookup(storedId)
           id == IF lookup THEN looked ELSE storedId
       IN /\ idLog' = IdLog(pIdx, queryRaises, storedId,
                            IF lookup THEN 1 ELSE 0,
                            IF Truthy(id) THEN id ELSE PyNone)
          /\ IF ~Truthy(id)
             THEN EarlyReturn("not_found")
             ELSE IF ~Truthy(fetched)
             THEN EarlyReturn("stats_failed")
             ELSE /\ account_id' = id
                  /\ stats' = fetched
                  /\ pc' = "player_fetched"
                  /\ ev' = NoEvent
                  /\ UNCHANGED <<pIdx, slept, raised>>
  /\ apiCalled' = TRUE
  /\ UNCHANGED <<world, run, env, interrupted, nSeasons, sIdx, season, exitCode,
                 connOpen, opens, closes, didWrite, storeVars, statsVars, callVars>>

(* stats['player'] = player; stats['account_id'] = account_id;           *)
(* flat_stats = flatten_json(stats)                                      *)
flat_stats(payload, player, id) ==
  flatten_json(SetItem(SetItem(payload, "player", JStr(player)),
                       "account_id", id))

(* stored_filtered: the stored fields whose key is in flat_stats *)
stored_unfiltered(stored, flat) == stored
stored_filtered(stored, flat) ==
  [k \in DOMAIN stored \cap DOMAIN flat |-> stored[k]]

(* _sync_player returns after the sentinel check; sync_players sleeps     *)
(* and moves to the next player.                                         *)
PlayerDoneWithoutSleep ==
  /\ pc' = "player_loop"
  /\ pIdx' = pIdx + 1
  /\ slept' = slept
  /\ account_id' = PyNone
  /\ stats' = PyNone
PlayerDone ==
  /\ pc' = "player_loop"
  /\ pIdx' = pIdx + 1
  /\ slept' = slept + InterPlayerDelay
  /\ account_id' = PyNone
  /\ stats' = PyNone

(* The rest of _sync_player, then time.sleep(1) of sync_players *)
SyncPlayer_Store ==
  /\ pc = "player_fetched"
  /\ LET player == Player(pIdx)
         flat == flat_stats(stats, player, account_id)
     IN IF is_api_error_raises(flat)
        THEN (* AttributeError leaves _sync_player and sync_players *)
             /\ raised' = TRUE
             /\ pc' = "finally"
             /\ ev' = Event("player", "crashed", "", FALSE)
             /\ UNCHANGED <<pIdx, slept, account_id, stats, didWrite, storeVars>>
        ELSE IF is_api_error(flat)
        THEN /\ PlayerDone
             /\ ev' = Event("player", "api_error", "", FALSE)
             /\ UNCHANGED <<raised, didWrite, storeVars>>
        ELSE \E queryRaises \in BOOLEAN, writeRaises \in BOOLEAN :
               LET stored == QueryToDict(queryRaises, playerStore[player])
                   prior == Prior(queryRaises, stored)
                   extra == Extra(stored, flat)
                   unchanged ==
                     /\ stored # NoDict
                     /\ ~has_data_changed(flat, stored_filtered(stored, flat))
               IN IF unchanged
                  THEN /\ PlayerDone
                       /\ ev' = Event("player", "unchanged", prior, extra)
                       /\ UNCHANGED <<raised, didWrite, storeVars>>
                  ELSE IF writeRaises
                  THEN /\ raised' = TRUE
                       /\ pc' = "finally"
                       /\ didWrite' = TRUE
                       /\ ev' = Event("player", "write_failed", prior, extra)
                       /\ UNCHANGED <<pIdx, slept, account_id, stats, storeVars>>
                  ELSE /\ playerStore' =
                            [playerStore EXCEPT
                               ![player] = StoreAfterWrite(playerStore[player],
                                                           player_point(flat))]
                       /\ playerLast' = [playerLast EXCEPT ![player] = stats]
                       /\ playerIdTag' =
                            [playerIdTag EXCEPT ![player] = account_id]
                       /\ didWrite' = TRUE
                       /\ PlayerDone
                       /\ ev' = Event("player", "written", prior, extra)
                       /\ UNCHANGED <<raised, seasonStore, seasonLast>>
  /\ UNCHANGED <<world, run, env, interrupted, idLog, nSeasons, sIdx, season, exitCode, connOpen, opens,
                 closes, apiCalled, statsVars, callVars>>

(* sync_players returns: run() goes on to its finally block *)
SyncPlayers_Done ==
  /\ pc = "player_loop"
  /\ pIdx > world.players
  /\ pc' = "finally"
  /\ UNCHANGED <<world, run, env, interrupted, idLog, nSeasons, sIdx, season, pIdx, account_id, stats,
                 raised, exitCode, connOpen, opens, closes, apiCalled,
                 didWrite, slept, ev, storeVars, statsVars, callVars>>

(* An interruption arrives while run() is inside its try block: the      *)
(* KeyboardInterrupt passes every  except Exception  of the callees and  *)
(* reaches the finally block of run().                                   *)
Run_Interrupted ==
  /\ pc \in {"sync_seasons", "season_loop", "player_loop", "player_fetched"}
  /\ raised' = TRUE
  /\ interrupted' = TRUE
  /\ pc' = "finally"
  /\ ev' = Event("none", "interrupted", "", FALSE)
  /\ UNCHANGED <<world, run, env, idLog, nSeasons, sIdx, season, pIdx, account_id,
                 stats, exitCode, connOpen, opens, closes, apiCalled, didWrite,
                 slept, storeVars, statsVars, callVars>>

(* main's handlers: except KeyboardInterrupt logs and lets main return,  *)
(* except Exception calls sys.exit(1); without exception main returns.   *)
main_exit_crashing(exc, keyboard) == IF exc THEN 1 ELSE 0
main_exit(exc, keyboard) == IF exc /\ ~keyboard THEN 1 ELSE 0

(* run(): finally: self.db.close(); then the exception, if any, reaches  *)
(* the handlers of main                                                  *)
Run_Finally ==
  /\ pc = "finally"
  /\ connOpen' = FALSE
  /\ closes' = closes + 1
  /\ exitCode' = main_exit(raised, interrupted)
  /\ pc' = "exited"
  /\ UNCHANGED <<world, run, env, interrupted, idLog, nSeasons, sIdx, season, pIdx, account_id, stats,
                 raised, opens, apiCalled, didWrite, slept, ev, storeVars,
                 statsVars, callVars>>

(* The script is started again, against the same store. *)
Main_Start ==
  /\ pc = "exited"
  /\ run < MaxRuns
  /\ run' = run + 1
  /\ env' \in Environments
  /\ ProcessStart
  /\ UNCHANGED <<world, storeVars, statsVars, callVars>>

Next ==
  \/ Main_Validate
  \/ FortniteSync_Init
  \/ SyncSeasons_Fetch
  \/ SyncSeasons_Season
  \/ SyncPlayers_Load
  \/ SyncPlayer_Fetch
  \/ SyncPlayer_Store
  \/ SyncPlayers_Done
  \/ Run_Interrupted
  \/ Run_Finally
  \/ Main_Start

(* A call of a module-level function on its own: its arguments and, once *)
(* it has returned, its result.                                          *)
Call(fn, args, ret) == [fn |-> fn, args |-> args, done |-> FALSE, ret |-> ret]
NoCall == Call("", <<>>, PyNone)
Returned(c, ret) == [c EXCEPT !.done = TRUE, !.ret = ret]

Init == Main_Init /\ GetStats_Idle /\ call = NoCall

(* No execution of main() is followed. *)
Main_Idle ==
  /\ Main_Init
  /\ world = World({}, NumPlayers, Payloads)
  /\ env = Environment(AllSet, "readable")

Spec == Init /\ [][Next]_vars

(* get_stats on its own: no execution of main() is followed. *)
InitStats ==
  /\ gsPc = "loop"
  /\ gsMax \in 1..MaxRetriesBound
  /\ gsAttempt = 0
  /\ gsResponses = <<>>
  /\ gsSlept = <<>>
  /\ gsResult = PyNone
  /\ Main_Idle
  /\ call = NoCall

SpecStats == InitStats /\ [][NextStats]_vars

-----------------------------------------------------------------------------
(* has_data_changed on its own *)

(* Flat records: every mapping from some of NumKeys field names to the   *)
(* scalars a flattened JSON payload or a stored point can hold.          *)
FieldNames == {"f" \o ToString(i) : i \in 1..NumKeys}
Scalars == {PyNone, JBool(TRUE), JInt(1), JFloat(1), JInt(2), JStr("1")}
FlatRecords ==
  UNION {[keys -> Scalars] : keys \in SUBSET FieldNames}

HasDataChanged_Call ==
  /\ call.fn = "has_data_changed"
  /\ ~call.done
  /\ call' = Returned(call, has_data_changed(call.args[1], call.args[2]))
  /\ UNCHANGED <<statsVars, syncVars>>

InitChanged ==
  /\ \E new_data \in FlatRecords, old_data \in FlatRecords \cup {NoDict} :
       call = Call("has_data_changed", <<new_data, old_data>>, FALSE)
  /\ GetStats_Idle
  /\ Main_Idle

SpecChanged == InitChanged /\ [][HasDataChanged_Call]_vars

-----------------------------------------------------------------------------
(* flatten_json on its own *)

(* The dicts whose keys, in insertion order, are distinct names of keys  *)
(* and whose values come from values; the lists of up to MaxItems items. *)
KeySeqs(keys) ==
  UNION {{ks \in [1..n -> keys] : \A i, j \in 1..n : ks[i] = ks[j] => i = j} :
           n \in 0..Cardinality(keys)}
Dicts(keys, values) ==
  UNION {{JObj([i \in 1..Len(ks) |-> <<ks[i], c[i]>>]) : c \in [1..Len(ks) -> values]} :
           ks \in KeySeqs(keys)}
Lists(items) ==
  UNION {{JList(q) : q \in [1..n -> items]} : n \in 0..MaxItems}

(* JSON objects as response.json() yields them: scalars, dicts and lists *)
(* inside the top-level dict, lists in lists and dicts in lists          *)
(* included.  With "a_b" beside "a" holding "b", two key paths can join  *)
(* to one flat key.                                                      *)
TopKeys == {"a", "a_b"}
InnerKeys == {"b", "c"}
Leaves == {JInt(1), PyNone}
Nested == Leaves \cup Lists(Leaves) \cup Dicts(InnerKeys, Leaves)
ListItems == Leaves \cup Lists(Leaves) \cup Dicts({"b"}, Leaves)
TopValues == Nested \cup Lists(ListItems)

FlattenJson_Call ==
  /\ call.fn = "flatten_json"
  /\ ~call.done
  /\ call' = Returned(call, flatten_json(call.args[1]))
  /\ UNCHANGED <<statsVars, syncVars>>

InitFlatten ==
  /\ \E ks \in KeySeqs(TopKeys) : \E c \in [1..Len(ks) -> TopValues] :
       LET data == JObj([i \in 1..Len(ks) |-> <<ks[i], c[i]>>])
       IN call = Call("flatten_json", <<data>>, EmptyDict)
  /\ GetStats_Idle
  /\ Main_Idle

SpecFlatten == InitFlatten /\ [][FlattenJson_Call]_vars

-----------------------------------------------------------------------------
(* get_account_id on its own *)

(* Bodies of a 200 answer: each of the three places of the id is absent, *)
(* holds an id, or holds something that is no id.                        *)
Absent == JStr("<absent>")
WithKey(key, value) == IF value = Absent THEN <<>> ELSE << <<key, value>> >>
LookupBody(root, result, account) ==
  JObj(WithKey("account_id", root) \o WithKey("result", result)
       \o WithKey("account", account))

RootIds == {Absent, PyNone, JStr(""), JStr(AccountId(1))}
Results ==
  {Absent, JBool(TRUE), JObj(<<>>),
   JObj(<< <<"account_id", JStr("")>> >>),
   JObj(<< <<"account_id", JStr(AccountId(2))>> >>)}
Accounts ==
  {Absent, JStr("x"), JObj(<<>>),
   JObj(<< <<"id", JStr("")>> >>),
   JObj(<< <<"id", JStr(AccountId(3))>> >>)}

AccountLookups ==
  {LookupResponse(200, "", TRUE, LookupBody(root, result, account)) :
     root \in RootIds, result \in Results, account \in Accounts}
  \cup {LookupResponse(200, "", FALSE, PyNone),
        LookupResponse(404, "", FALSE, PyNone),
        LookupResponse(500, "", FALSE, PyNone),
        LookupResponse(0, "Timeout", FALSE, PyNone),
        LookupResponse(0, "ConnectionError", FALSE, PyNone)}

GetAccountId_Call ==
  /\ call.fn = "get_account_id"
  /\ ~call.done
  /\ call' = Returned(call, get_account_id(call.args[1]))
  /\ UNCHANGED <<statsVars, syncVars>>

InitAccount ==
  /\ call \in {Call("get_account_id", <<r>>, PyNone) : r \in AccountLookups}
  /\ GetStats_Idle
  /\ Main_Idle

SpecAccount == InitAccount /\ [][GetAccountId_Call]_vars

-----------------------------------------------------------------------------
(* Properties of get_stats (SpecStats) *)

RECURSIVE Sum(_)
Sum(seq) == IF seq = <<>> THEN 0 ELSE Head(seq) + Sum(Tail(seq))

Parsed200(r) == r.status = 200 /\ r.bodyOk
GsDone == gsPc = "returned"
GsLastResponse == gsResponses[Len(gsResponses)]

(* C4: get_stats makes at most max_retries HTTP attempts and always comes  *)
(* to a return; when no attempt answered HTTP 200 it has made exactly      *)
(* max_retries attempts and returns None.                                  *)
Thm_C4_RetryBudget ==
  /\ Len(gsResponses) <= gsMax
  /\ GsDone \/ ENABLED NextStats
  /\ (GsDone /\ \A i \in 1..Len(gsResponses) : gsResponses[i].status # 200)
       => Len(gsResponses) = gsMax /\ gsResult = PyNone

Wit_C4_ThreeTransportErrors ==
  /\ GsDone
  /\ gsMax = DefaultMaxRetries
  /\ Len(gsResponses) = DefaultMaxRetries
  /\ \A i \in 1..Len(gsResponses) : gsResponses[i].exc = "ConnectionError"
  /\ gsResult = PyNone

(* C5: after a 429 on an attempt that is not the last one, whose           *)
(* Retry-After is d seconds (60 when the header is absent), the time slept *)
(* before the next attempt is exactly d.                                   *)
Cex_C5_RateLimitSleepExact ==
  \A k \in 1..Len(gsSlept) :
    LET r == gsResponses[k]
    IN (r.status = 429 /\ (r.hdr => IntParses(r.hdrText)) /\ k < gsMax)
         => /\ Sum(gsSlept[k]) = WaitTime(r)
            /\ (GsDone /\ Len(gsResponses) = k + 1 /\ Parsed200(gsResponses[k + 1]))
                 => gsResult = gsResponses[k + 1].body

(* C6: get_stats returns a payload only from an attempt that answered 200  *)
(* with a parsed body, and the payload is that body; that attempt is the   *)
(* last one and no sleep follows it; every other call returns None after   *)
(* all attempts.                                                           *)
Thm_C6_OnlyParsed200 ==
  /\ \A i \in 1..(Len(gsResponses) - 1) : ~Parsed200(gsResponses[i])
  /\ gsResult # PyNone => GsDone
  /\ GsDone =>
       \/ /\ Parsed200(GsLastResponse)
          /\ gsResult = GsLastResponse.body
          /\ Len(gsSlept) = Len(gsResponses) - 1
       \/ /\ \A i \in 1..Len(gsResponses) : ~Parsed200(gsResponses[i])
          /\ gsResult = PyNone
          /\ Len(gsResponses) = gsMax

Wit_C6_SuccessOnSecondAttempt ==
  /\ GsDone
  /\ Len(gsResponses) = 2
  /\ gsResponses[1].status = 500
  /\ Parsed200(gsResponses[2])
  /\ gsResult = PayloadA
  /\ Len(gsSlept) = 1

(* The attempt ended in a status other than 200 and 429, in a timeout or   *)
(* in a transport exception.                                               *)
PlainFailure(r) == r.exc # "" \/ r.status \notin {200, 429}

(* C19: after the attempt of 0-based index k that ended in a status other  *)
(* than 200 and 429, a timeout or a transport exception, get_stats sleeps  *)
(* exactly 2^k seconds when an attempt remains, and does not sleep when it *)
(* was the last attempt.                                                   *)
Thm_C19_ExponentialBackoff ==
  \A i \in 1..Len(gsSlept) :
    PlainFailure(gsResponses[i]) =>
      gsSlept[i] = IF i < gsMax THEN <<2 ^ (i - 1)>> ELSE <<>>

Wit_C19_OneThenTwoSeconds ==
  /\ GsDone
  /\ gsMax = DefaultMaxRetries
  /\ gsResponses[1].status = 500
  /\ gsResponses[2].exc = "Timeout"
  /\ gsResponses[3].exc = "ConnectionError"
  /\ gsSlept = << <<1>>, <<2>>, <<>> >>

(* C22: get_stats does not sleep after its last attempt: when the          *)
(* max_retries-th attempt has ended without a return, whatever it ended    *)
(* in, no sleep follows it.                                                *)
Cex_C22_NoSleepAfterFinalAttempt ==
  Len(gsSlept) = gsMax => gsSlept[gsMax] = <<>>

-----------------------------------------------------------------------------
(* Properties of the executions of main() (Spec) *)

WriteCalled(e) == e.outcome \in {"written", "write_failed"}

(* Steps of the two loops, seen from the state before them. *)
AtSeason == pc = "season_loop" /\ sIdx <= nSeasons /\ season.season # ""
AtPlayer == pc = "player_loop" /\ pIdx <= world.players
AtPlayerStore == pc = "player_fetched"
NewFlat == flat_stats(stats, Player(pIdx), account_id)

(* C1: a player whose fetched payload is the payload of the latest point   *)
(* written for that player, with the stored snapshot read back, gets no    *)
(* store write: the iteration ends as unchanged.                           *)
Cex_C1_IdenticalResyncNoWrite ==
  [][(AtPlayerStore /\ stats = playerLast[Player(pIdx)] /\ ev'.prior = "found")
       => (ev'.outcome = "unchanged" /\ playerStore' = playerStore)]_vars

(* C2: a season with an id is written in an execution if and only if the   *)
(* field set built for it differs from the field set most recently stored  *)
(* for it; a second execution on the same seasons writes nothing.          *)
Cex_C2_SeasonWrittenIffChanged ==
  [][(AtSeason /\ ev'.kind = "season" /\ ev'.prior # "error")
       => (WriteCalled(ev') <=> season_data(season) # seasonLast[season.season])]_vars

(* C3 as claimed: whenever the stored snapshot holds a field that the new  *)
(* flattened record lacks, write_player_stats is called.                   *)
Cex_C3_RemovedFieldWritten ==
  [][(AtPlayerStore /\ ev'.prior = "found" /\ ev'.extra)
       => WriteCalled(ev')]_vars

(* C3 as amended: when a snapshot is read back, write_player_stats is      *)
(* called exactly when some key of the new record is missing from the      *)
(* snapshot or has another value there; fields only the snapshot holds     *)
(* are ignored.  Without a snapshot the record is always written.          *)
Thm_C3_NewRecordKeysCompared ==
  [][(AtPlayerStore /\ ev'.prior # "")
       => LET old == playerStore[Player(pIdx)]
              differs == \E k \in DOMAIN NewFlat :
                            k \notin DOMAIN old \/ ~PyEq(NewFlat[k], old[k])
          IN WriteCalled(ev') <=> (ev'.prior # "found" \/ differs)]_vars

Wit_C3_RemovedFieldIgnored ==
  /\ ev.kind = "player"
  /\ ev.outcome = "unchanged"
  /\ ev.extra

(* C7: a store write that raises ends that entity only: the execution      *)
(* still processes every remaining season and player and ends normally.    *)
Cex_C7_WriteFailureIsolated ==
  (pc = "exited" /\ ev.outcome = "write_failed")
    => (sIdx > nSeasons /\ pIdx > world.players /\ exitCode = 0)

(* C8: a player whose account id is not found or whose stats fetch failed  *)
(* gets no store write and no query for prior stats, and the loop goes on  *)
(* to the next player.                                                     *)
Thm_C8_FailedPlayerIsolated ==
  [][(AtPlayer /\ ev'.outcome \in {"not_found", "stats_failed"})
       => /\ ev'.prior = ""
          /\ storeVars' = storeVars
          /\ didWrite' = didWrite
          /\ pc' = "player_loop"
          /\ pIdx' = pIdx + 1
          /\ ~raised']_vars

Wit_C8_LaterPlayerWritten ==
  /\ world = BothWorld
  /\ run = 1
  /\ pIdx = 3
  /\ playerStore[Player(1)] = EmptyDict
  /\ ev.outcome = "written"
  /\ playerLast[Player(2)] = PayloadA

(* The sentinel of the stats API in a flattened record. *)
HasSentinel(flat) ==
  \/ "error" \in DOMAIN flat /\ flat["error"] \in {JStr("unknown"), JStr("UNKNOWN"), JStr("Unknown")}
  \/ /\ "_field" \in DOMAIN flat /\ flat["_field"] = JStr("error")
     /\ "_value" \in DOMAIN flat
     /\ flat["_value"] \in {JStr("unknown"), JStr("UNKNOWN"), JStr("Unknown")}

(* C9: a player whose flattened stats carry the sentinel ends as failed:   *)
(* nothing is written, and the loop goes on to the next player.            *)
Cex_C9_SentinelIsFailure ==
  [][(AtPlayerStore /\ ev'.kind = "player" /\ HasSentinel(NewFlat))
       => /\ ev'.outcome = "api_error"
          /\ storeVars' = storeVars
          /\ pc' = "player_loop"
          /\ pIdx' = pIdx + 1]_vars

(* C10: with a configuration error (a required variable unset or empty,    *)
(* the player file missing or unreadable) no store connection is opened,   *)
(* no API request is made and nothing is written.                          *)
ConfigError(e) ==
  \/ \E name \in Required : e.values[name] = ""
  \/ e.file \in {"absent", "unreadable"}

Cex_C10_ConfigErrorBeforeWork ==
  ConfigError(env) => (opens = 0 /\ ~apiCalled /\ ~didWrite)

(* The positions from which a store query or write is issued. *)
InSync == pc \in {"sync_seasons", "season_loop", "player_loop", "player_fetched"}

(* C11: an execution opens at most one store connection and, once it has   *)
(* opened one, closes it exactly once before it exits, on every path out   *)
(* of the sync (normal end, exception, KeyboardInterrupt); every store     *)
(* query and write is issued while the connection is open and not yet      *)
(* closed; an exception or interruption leads to the close, and an         *)
(* interrupted execution ends through main's handler with a normal return. *)
Thm_C11_ClosedExactlyOnce ==
  /\ opens <= 1
  /\ closes <= opens
  /\ connOpen <=> (opens = 1 /\ closes = 0)
  /\ InSync => connOpen
  /\ pc = "exited" => closes = opens
  /\ (pc = "exited" /\ interrupted) => (exitCode = 0 /\ closes = 1)
  /\ (pc = "exited" /\ raised /\ ~interrupted) => exitCode = 1
  /\ (raised /\ pc # "exited") => pc = "finally"
  /\ pc = "finally" => (connOpen /\ ENABLED Run_Finally)

Wit_C11_InterruptedAfterWrite ==
  /\ pc = "exited"
  /\ interrupted
  /\ didWrite
  /\ pIdx = 2
  /\ opens = 1
  /\ closes = 1
  /\ exitCode = 0

(* C12: when get_stored_account_id returned a non-empty id, that id is the *)
(* one passed to get_stats and the account lookup API got no request;      *)
(* otherwise the lookup API got exactly one request; and the step that     *)
(* resolves the id writes nothing to the store.                            *)
Thm_C12_CacheThenFetch ==
  /\ [](idLog.player # 0 =>
          IF Truthy(idLog.stored)
          THEN idLog.lookups = 0 /\ idLog.used = idLog.stored
          ELSE idLog.lookups = 1)
  /\ [][(AtPlayer /\ idLog'.player = pIdx /\ ev'.outcome # "interrupted")
          => (storeVars' = storeVars /\ didWrite' = didWrite)]_vars

Wit_C12_StoredIdUsed ==
  /\ run = 2
  /\ pc = "player_fetched"
  /\ idLog = IdLog(1, FALSE, JStr(AccountId(1)), 0, JStr(AccountId(1)))
  /\ account_id = JStr(AccountId(1))

(* C16: when the query for the stored snapshot of a season or of a         *)
(* player's stats raises, the entity is handled as one without snapshot:   *)
(* the write is called with the freshly fetched record, and when the write *)
(* succeeds the record is in the store and the execution goes on.          *)
Thm_C16_QueryFailureWrites ==
  [][((AtSeason \/ AtPlayerStore) /\ ev'.prior = "error")
       => /\ WriteCalled(ev')
          /\ didWrite'
          /\ ev'.outcome = "write_failed" => storeVars' = storeVars
          /\ ev'.outcome = "written" =>
               /\ ~raised'
               /\ pc' \in {"season_loop", "player_loop"}
               /\ IF ev'.kind = "season"
                  THEN /\ seasonLast'[season.season] = season_data(season)
                       /\ seasonStore'[season.season] =
                            StoreAfterWrite(seasonStore[season.season],
                                            season_data(season))
                  ELSE /\ playerLast'[Player(pIdx)] = stats
                       /\ playerStore'[Player(pIdx)] =
                            StoreAfterWrite(playerStore[Player(pIdx)],
                                            player_point(NewFlat))]_vars

Wit_C16_RewrittenAfterQueryError ==
  /\ run = 2
  /\ ev = Event("player", "written", "error", FALSE)
  /\ pc = "player_loop"
  /\ pIdx = 2
  /\ playerLast[Player(1)] = PayloadA

(* C17: whenever sync_players is at a player, before or between that       *)
(* player's requests, it has slept InterPlayerDelay seconds once for every *)
(* player processed before, whatever that player's outcome; every player   *)
(* that ends not found, stats failed, api error, unchanged or written is   *)
(* followed by that sleep.                                                 *)
Thm_C17_InterPlayerDelay ==
  /\ [](pc \in {"player_loop", "player_fetched"}
          => slept = (pIdx - 1) * InterPlayerDelay)
  /\ [][((AtPlayer \/ AtPlayerStore)
           /\ ev'.outcome \in {"not_found", "stats_failed", "api_error",
                                "unchanged", "written"})
          => (slept' = slept + InterPlayerDelay /\ pIdx' = pIdx + 1)]_vars

Wit_C17_SleptAfterFailedPlayers ==
  /\ pc = "player_loop"
  /\ pIdx = 3
  /\ slept = 2 * InterPlayerDelay
  /\ ev.outcome = "api_error"

(* A step in which write_player_stats is called, or after which the store  *)
(* holds something else for some player.                                   *)
PlayerWriteStep ==
  \/ WriteCalled(ev') /\ ev'.kind = "player" /\ (AtPlayerStore \/ ev' # ev)
  \/ <<playerStore, playerLast, playerIdTag>>'
       # <<playerStore, playerLast, playerIdTag>>

(* C20: write_player_stats is called only at the end of the processing of  *)
(* a player-list entry for which, in that processing, an account id was    *)
(* resolved, get_stats returned a non-empty payload and the flattened      *)
(* record carries no sentinel; the call ends the processing of the entry,  *)
(* so there is at most one per entry; and the point written is tagged with *)
(* the entry's name and the resolved id, no other player's data changing.  *)
Thm_C20_OneGuardedWrite ==
  [][PlayerWriteStep
       => /\ AtPlayerStore
          /\ idLog.player = pIdx
          /\ Truthy(account_id)
          /\ account_id = idLog.used
          /\ Truthy(stats)
          /\ stats \in world.payloads
          /\ ~HasSentinel(NewFlat)
          /\ WriteCalled(ev')
          /\ pc' = "finally" \/ (pc' = "player_loop" /\ pIdx' = pIdx + 1)
          /\ \A i \in 1..NumPlayers :
               i # pIdx =>
                 /\ playerStore'[Player(i)] = playerStore[Player(i)]
                 /\ playerIdTag'[Player(i)] = playerIdTag[Player(i)]
          /\ ev'.outcome = "written" =>
               /\ playerIdTag'[Player(pIdx)] = account_id
               /\ Get(playerStore'[Player(pIdx)], "player") = JStr(Player(pIdx))
               /\ playerLast'[Player(pIdx)] = stats]_vars

Wit_C20_TaggedPointWritten ==
  /\ run = 1
  /\ pc = "player_loop"
  /\ pIdx = 3
  /\ ev.outcome = "written"
  /\ playerIdTag[Player(2)] = JStr(AccountId(2))
  /\ playerLast[Player(2)] = PayloadWins
  /\ playerIdTag[Player(1)] = PyNone

(* C21: once a point has been written for a player (its account_id tag is  *)
(* the id the lookup API gave), every later execution whose query for the  *)
(* stored id does not raise gets that id back from the store and sends no  *)
(* request to the account lookup API for that player.                      *)
Cex_C21_StoredIdReused ==
  [][(/\ AtPlayer
      /\ idLog'.player = pIdx
      /\ ev'.outcome # "interrupted"
      /\ playerIdTag[Player(pIdx)] # PyNone
      /\ ~idLog'.queryRaised)
       => /\ idLog'.stored = playerIdTag[Player(pIdx)]
          /\ idLog'.lookups = 0]_vars

-----------------------------------------------------------------------------
(* Properties of has_data_changed (SpecChanged) *)

(* The two mappings differ: a key on one side only, or a key on both      *)
(* sides whose values are not equal.                                       *)
Differ(new, old) ==
  \/ DOMAIN new # DOMAIN old
  \/ \E k \in DOMAIN new \cap DOMAIN old : ~PyEq(new[k], old[k])

(* C13: has_data_changed(new, old) is true when old is None and otherwise  *)
(* exactly when the two mappings differ; so it is false on two equal       *)
(* records of scalars and true when a record is compared with itself       *)
(* plus or minus one field.                                                *)
Thm_C13_EqualsReference ==
  call.done =>
    LET new == call.args[1]
        old == call.args[2]
    IN /\ old = NoDict => call.ret
       /\ old # NoDict => (call.ret <=> Differ(new, old))
       /\ new = old => ~call.ret
       /\ (old # NoDict /\ \E k \in DOMAIN new \ DOMAIN old :
              old = [j \in DOMAIN new \ {k} |-> new[j]]) => call.ret
       /\ (old # NoDict /\ \E k \in DOMAIN old \ DOMAIN new :
              new = [j \in DOMAIN old \ {k} |-> old[j]]) => call.ret

Wit_C13_RemovedFieldDetected ==
  /\ call.done
  /\ call.args = << "f1" :> JInt(1), ("f1" :> JFloat(1)) @@ ("f2" :> PyNone) >>
  /\ call.ret

-----------------------------------------------------------------------------
(* Properties of flatten_json (SpecFlatten) *)

(* The values that differ from v only in the order of the keys of its      *)
(* dicts, at any depth.                                                    *)
RECURSIVE Reorderings(_)
Reorderings(v) ==
  IF v.t \notin {"dict", "list"} \/ v.kids = <<>> THEN {v}
  ELSE LET n == Len(v.kids)
           orders == IF v.t = "dict" THEN Permutations(1..n)
                     ELSE {[i \in 1..n |-> i]}
           all == UNION {Reorderings(v.kids[i][2]) : i \in 1..n}
       IN {[v EXCEPT !.kids = [i \in 1..n |-> <<v.kids[p[i]][1], c[i]>>]] :
             <<p, c>> \in {oc \in orders \X [1..n -> all] :
                            \A i \in 1..n :
                              oc[2][i] \in Reorderings(v.kids[oc[1][i]][2])}}

(* C14: flatten_json gives the same mapping for an object and for every    *)
(* reordering of the keys of its dicts, objects in which two key paths     *)
(* join to the same flat key included.                                     *)
Cex_C14_OrderIndependent ==
  call.done =>
    \A reordered \in Reorderings(call.args[1]) :
      flatten_json(reordered) = call.ret

(* C15: every value of the mapping flatten_json returns is a scalar, no    *)
(* dict or list is left as a value, and the i-th item of a list under a    *)
(* top-level key is found under the key path key_<i>.                      *)
Cex_C15_LeavesAreScalars ==
  call.done =>
    /\ \A k \in DOMAIN call.ret : call.ret[k].t \notin {"dict", "list"}
    /\ \A j \in 1..Len(call.args[1].kids) :
         LET key == call.args[1].kids[j][1]
             value == call.args[1].kids[j][2]
         IN value.t = "list" =>
              \A i \in 1..Len(value.kids) :
                value.kids[i][2].t \notin {"dict", "list"}
                  => (key \o "_" \o ToString(i - 1)) \in DOMAIN call.ret

-----------------------------------------------------------------------------
(* Properties of get_account_id (SpecAccount) *)

(* The ids the three shapes of a body yield, in priority order: at root,   *)
(* inside a result object, inside an account object; None for a shape      *)
(* that is not there.                                                      *)
ShapeIds(data) ==
  LET result == GetItem(data, "result")
      account == GetItem(data, "account")
  IN << GetItem(data, "account_id"),
        IF result.t = "dict" THEN GetItem(result, "account_id") ELSE PyNone,
        IF account.t = "dict" THEN GetItem(account, "id") ELSE PyNone >>

Usable(id) == id # PyNone /\ id # JStr("")

FirstUsable(ids) ==
  IF \E i \in 1..Len(ids) : Usable(ids[i])
  THEN ids[CHOOSE i \in 1..Len(ids) :
             Usable(ids[i]) /\ \A j \in 1..(i - 1) : ~Usable(ids[j])]
  ELSE PyNone

(* C18: on a 200 answer get_account_id returns the id of the first of the  *)
(* three shapes that yields a present, non-empty id; it returns None only  *)
(* when the status is not 200, the call raised, or no shape yields an id.  *)
Cex_C18_FirstUsableShape ==
  call.done =>
    LET r == call.args[1]
    IN IF r.exc # "" \/ r.status # 200 \/ ~r.bodyOk
       THEN call.ret = PyNone
       ELSE call.ret = FirstUsable(ShapeIds(r.body))


=============================================================================
